---- MODULE Spec2Model ----
(***************************************************************************)
(* The OCR extraction pipeline of sat_platform: one OCRJob, its            *)
(* OCRJobPage and ExtractedQuestion rows, the Celery tasks that process    *)
(* it (backend/app/tasks/ocr_tasks.py) and the operator endpoints that     *)
(* act on it (backend/app/api/v1/endpoints/ocr.py).                        *)
(*                                                                         *)
(* A step of the model is one database transaction of a task or one whole  *)
(* endpoint handler.  Every task works on the ORM objects of its own       *)
(* session: it loads the job row once and later commits write the          *)
(* attributes the task changed, whatever the row holds by then.            *)
(*                                                                         *)
(* The call of ocr_client.process_page_batch in _process_pdf_job_async     *)
(* (ocr_tasks.py:181) passes quality= and three-element tuples, which the  *)
(* function of ocr_service.py:790 does not take.  The model has both       *)
(* outcomes of the call: it raises inside the try block (PExcept), or it   *)
(* returns one result per page of the batch as process_single_page builds  *)
(* it (PCall, PSave).                                                      *)
(*                                                                         *)
(* The import endpoints build Question(..., table_data=...) (ocr.py:981,   *)
(* 1170) and the Question model of models/test.py has no such attribute.   *)
(* The model has both outcomes of the constructor for each question: it    *)
(* raises inside the try block and the question is noted as failed, or     *)
(* the row is created.                                                     *)
(*                                                                         *)
(* The retry loop of OCRClient._call_api (ocr_service.py:187-233) is       *)
(* modelled on its own: one call, one step per attempt, the answer of the  *)
(* provider and the jitter of a delay chosen freely.                       *)
(***************************************************************************)
EXTENDS Integers, Sequences, FiniteSets, TLC

\* ---------------------------------------------------------------- bounds
\* most pages an uploaded PDF has
MaxPages == 3
\* Celery task ids handed out in one behaviour
MaxTasks == 3
\* worker_concurrency (celery_config.py) scaled down: tasks that run at the same time
Workers == 2
\* settings.ocr_batch_size scaled down so that the document has two batches
ocr_batch_size == 2
\* settings.ocr_max_retries scaled down
ocr_max_retries == 2
\* settings.ocr_retry_delay, in seconds
ocr_retry_delay == 2
\* settings.ocr_max_concurrent_pages scaled down
ocr_max_concurrent_pages == 2
\* most passages rows the imports of one behaviour create
MaxPassages == 3
\* upload requests of one user with one file
MaxUploads == 3
\* most pieces the markdown of a page is made of
\* the largest question_start and question_end of a module of a request
MaxRange == 3

MaxPieces == 4

\* OCRJobStatus (the value before the upload is NONE: no job row yet)
PENDING == "PENDING"
PROCESSING == "PROCESSING"
REVIEW == "REVIEW"
COMPLETED == "COMPLETED"
FAILED == "FAILED"
CANCELLED == "CANCELLED"
NONE == "NONE"

\* outcome of process_single_page for one page
\*   "q"    OCR ok, classified as question page, structuring gave a question
\*   "skip" OCR ok, classified as a non-question page
\*   "err"  the OCR call raised: error recorded, no markdown
Outcomes == {"q", "skip", "err"}

\* two more outcomes of process_single_page, for the specifications that look at
\* the cost and at the errors of a page
\*   "cost" as "skip", and the OCR call cost a whole cent
\*   "serr" OCR ok, classified as question page, the structuring call raised:
\*          markdown and error recorded, no question
\* three more, for the specifications that look at what a question holds
\*   "qn" as "q", and the question came without a correct answer
\*   "qv" as "q", and _validate_question found an error in the question
\*   "qp" as "q", and the question came with the text of its passage
QuestionOuts == {"q", "qn", "qv", "qp"}

IsQuestionPage(out) == out \in QuestionOuts \cup {"serr"}

HasError(out) == out \in {"err", "serr"}

\* what raised inside the try block of _process_pdf_job_async
\*   "open"   the PDF is not there or fitz.open raised
\*   "render" load_page, get_pixmap or get_text raised for a page of the batch
\*   "call"   the call of process_page_batch raised
Causes == {"open", "render", "call"}

VARIABLES
  workers,             \* processes of the Celery worker (--concurrency)
  doc_pages,           \* len(doc) of the stored PDF file (0 before the upload)
  status,              \* OCRJob.status
  total_pages,         \* OCRJob.total_pages
  processed_pages,     \* OCRJob.processed_pages
  question_pages,      \* OCRJob.question_pages
  skipped_pages,       \* OCRJob.skipped_pages
  extracted_questions, \* OCRJob.extracted_questions
  imported_questions,  \* OCRJob.imported_questions
  retry_count,         \* OCRJob.retry_count
  error_message,       \* OCRJob.error_message: what raised in the run that failed last
                       \* ("" = None)
  actual_cost_cents,   \* OCRJob.actual_cost_cents
  celery_task_id,      \* OCRJob.celery_task_id (0 = None)
  prod_passages,       \* passages rows the imports created; the index is the row id
  jobs,                \* ocr_jobs rows of one user with one pdf_hash; the index is the job id
  uploads,             \* POST /upload requests of that user with that file
  ocr_result,          \* the OCRResult of the last extract_text: markdown and is_question_page
  ocr_provider,        \* OCRJob.ocr_provider, set when the job is created
  processing_mode,     \* OCRJob.processing_mode
  pages,               \* ocr_job_pages rows of the job; the index is the row id
  questions,           \* extracted_questions rows of the job
  nextQ,               \* next id of the extracted_questions sequence
  prod,                \* questions rows of the target module; the index is the row id.
                       \* source is the ExtractedQuestion a row was built from and
                       \* call tells the import calls apart (imported_questions
                       \* before the call)
  tasks,               \* Celery tasks; the index is the task id
  procs,               \* per worker process, the coroutines of its running task that
                       \* wait at the semaphore of its ocr_client and those that are
                       \* inside _call_api, and the provider they call
  peer,                \* the delay a call for another page got for a 429 that came
                       \* at the same instant and attempt index as the last 429 of call
  call,                \* one call of OCRClient._call_api: the loop index, what the
                       \* provider answered to each attempt and how long the call
                       \* slept after it
  resp                 \* the last HTTP response an endpoint gave

vars == <<workers, doc_pages, status, total_pages, processed_pages, question_pages, skipped_pages,
          extracted_questions, imported_questions, retry_count, error_message,
          actual_cost_cents, celery_task_id, pages, questions, nextQ, prod, tasks,
          call, peer, procs, resp, ocr_provider, processing_mode, prod_passages,
          ocr_result, jobs, uploads>>

\* what the steps of the job leave alone: the provider calls that are modelled on
\* their own
aside == <<ocr_result, call, peer, procs, ocr_provider, processing_mode, prod_passages, jobs, uploads>>

jobCounters == <<aside, workers, doc_pages, total_pages, processed_pages, question_pages, skipped_pages,
                 extracted_questions, imported_questions, retry_count, error_message,
                 actual_cost_cents>>

\* the job with its rows and tasks, and the provider calls
jobAll == <<call, peer, procs, ocr_provider, processing_mode, prod_passages, workers,
                doc_pages, status, total_pages, processed_pages, question_pages,
                skipped_pages, extracted_questions, imported_questions, retry_count,
                error_message, actual_cost_cents, celery_task_id, pages, questions, nextQ,
                prod, tasks, resp>>

\* page numbers of the document
PageNums == 1 .. doc_pages

\* ------------------------------------------------------------- helpers
Min(S) == CHOOSE x \in S : \A y \in S : x <= y

\* locals of a task that is not inside process_pdf_job or structure_skipped_pages
NoLocals == [pc |-> "-", batch |-> 0, done |-> {}, called |-> {}, buf |-> <<>>,
             npg |-> 0, snap |-> {}, lp |-> 0, lq |-> 0, ls |-> 0, nq |-> 0, leq |-> 0, lretry |-> 0,
             lost |-> 0, lerr |-> "", lcost |-> 0, lact |-> 0, countdown |-> 0,
             ocr_with |-> "-", struct_with |-> "-"]

NewTask(kind, pgs, prov) ==
  [kind |-> kind, st |-> "queued", args |-> pgs, provider |-> prov] @@ NoLocals

\* task.delay(...): a new task id, the task waits in the queue
Delay(tk, kind, pgs, prov) == Append(tk, NewTask(kind, pgs, prov))

\* a worker process is free to take a task from the queue
FreeWorker == Cardinality({t \in 1 .. Len(tasks) : tasks[t].st = "running"}) < workers

\* room for n more task ids
CanDelay(n) == Len(tasks) + n <= MaxTasks

\* the task returned, or its worker process was killed: nothing of it is left but its id
Finished(tk) == [kind |-> "-", st |-> "done", args |-> {}, provider |-> FALSE] @@ NoLocals

\* task.retry(...): the same task id goes back to the queue
Requeued(tk) == [kind |-> tk.kind, st |-> "queued", args |-> tk.args, provider |-> tk.provider] @@ NoLocals

PageIds == 1 .. Len(pages)

\* page numbers of the rows that satisfy a condition
NumsOf(ids) == {pages[i].page_number : i \in ids}

\* a batch that runs to the end of the document
BatchOfAll(b) == {p \in PageNums : b < p}

\* the pages of the batch range(batch_start, batch_end), as 1-based page numbers
BatchOf(b) == {p \in PageNums : b < p /\ p <= b + ocr_batch_size}

BufPages(tk) == {tk.buf[i] : i \in 1 .. Len(tk.buf)}

\* batch_pages without the check of processed_page_nums
TodoAll(tk) == BatchOf(tk.batch) \ BufPages(tk)

\* batch_pages of the batch starting at b that the run has not called yet
Todo(tk) == (BatchOf(tk.batch) \ tk.done) \ BufPages(tk)

\* batch starts of  for batch_start in range(0, total_pages, batch_size)
BatchStarts == {b \in 0 .. doc_pages - 1 : b % ocr_batch_size = 0}

\* the first batch at or after b with a page to process ("if not batch_pages: continue"),
\* or doc_pages when the loop is exhausted
SkipEmpty(dn, b) ==
  LET cand == {c \in BatchStarts : c >= b /\ BatchOf(c) \ dn # {}}
  IN IF cand = {} THEN doc_pages ELSE Min(cand)

\* a row that leaves the page of a failed call to the next run
PageRecordUnfinished(p, out) ==
  [page_number |-> p,
   ocr_completed |-> (out # "err"),
   structuring_completed |-> IsQuestionPage(out),
   is_question_page |-> IsQuestionPage(out),
   error |-> HasError(out),
   markdown |-> (out # "err"),
   ocr_cost_cents |-> IF out = "cost" THEN 1 ELSE 0,
   structuring_cost_cents |-> 0,
   provider_used |-> "",
   reocr |-> FALSE]

\* the OCRJobPage row that lines 193-206 build from the result of page p
PageRecord(p, out) ==
  [page_number |-> p,
   ocr_completed |-> TRUE,
   structuring_completed |-> IsQuestionPage(out),
   is_question_page |-> IsQuestionPage(out),
   error |-> HasError(out),
   markdown |-> (out # "err"),
   ocr_cost_cents |-> IF out = "cost" THEN 1 ELSE 0,
   structuring_cost_cents |-> 0,
   provider_used |-> "",
   reocr |-> FALSE]

\* the rows of a batch, in the order of the results; f gives the outcome per page
RECURSIVE SaveRows(_, _, _)
SaveRows(pg, buf, f) ==
  IF buf = <<>> THEN pg
  ELSE SaveRows(Append(pg, PageRecord(Head(buf), f[Head(buf)])), Tail(buf), f)

\* the text of the one passage the questions of the document come with
PassageText == "passage"

\* ExtractedQuestion(...), lines 216-241: needs_answer is set and correct_answer
\* is None when the result has no answer, validation_errors holds what
\* _validate_question found (None when it found nothing)
NewQuestion(qid, pid, out) ==
  [id |-> qid, page |-> pid, review_status |-> "pending", imported_question_id |-> 0,
   needs_answer |-> (out = "qn"),
   correct_answer |-> (out # "qn"),
   validation_errors |-> (out = "qv"),
   passage_text |-> IF out = "qp" THEN PassageText ELSE ""]

\* the ExtractedQuestion rows of a batch: one per question page, linked to the
\* new page row, ids in the order of the results
RECURSIVE SaveQuestions(_, _, _, _)
SaveQuestions(buf, f, pid, qid) ==
  IF buf = <<>> THEN {}
  ELSE IF f[Head(buf)] \in QuestionOuts
       THEN {NewQuestion(qid, pid, f[Head(buf)])}
            \cup SaveQuestions(Tail(buf), f, pid + 1, qid + 1)
       ELSE SaveQuestions(Tail(buf), f, pid + 1, qid)

CountOut(buf, f, o) == Cardinality({i \in 1 .. Len(buf) : f[buf[i]] = o})

\* the results of a batch that hold a question
CountQuestions(buf, f) == Cardinality({i \in 1 .. Len(buf) : f[buf[i]] \in QuestionOuts})

\* ------------------------------------------------------------ _call_api
\* what the provider answers to one attempt
\*   "ok"      a response that raise_for_status accepts
\*   "timeout" httpx.TimeoutException
\*   "429", "5xx", "4xx"  httpx.HTTPStatusError with that status
\*   "other"   any other exception (connection error, invalid JSON)
Answers == {"ok", "timeout", "429", "5xx", "4xx", "other"}

\* a response without a Retry-After header, or with one that is not all digits
NoHint == -1

\* the Retry-After values, in seconds, the provider sends
Hints == {0, 30}

\* no call of _call_api yet
NoCall == [st |-> "idle", attempt |-> 0, hist |-> <<>>, err |-> "-"]

\* lines 187-189
max_retries == ocr_max_retries

rate_limit_retries == max_retries * 2

\* durations are counted in half seconds, so that half of a base delay is whole
HalfSeconds(seconds) == 2 * seconds

\* the delay of the 429 schedule used for timeouts and 5xx as well
BackoffDelayRateLimit(attempt) == 5 * (2 ^ attempt)

\* settings.ocr_retry_delay * (2 ** attempt), lines 204 and 230
BackoffDelay(attempt) == ocr_retry_delay * (2 ^ attempt)

\* the attempt index from which the base delay of a 429 no longer grows
\* (min(attempt, 4), line 220)
CapAttempt == 4

\* a Retry-After value taken one second short
HintBaseShort(hint) == hint - 1

\* int(retry_after) + 1, line 217
HintBase(hint) == hint + 1

\* a base delay that does not grow with the attempts
GeometricBaseFlat(attempt) == 5

\* 5 * (2 ** min(attempt, 4)), line 220
GeometricBase(attempt) == 5 * (2 ^ (IF attempt < CapAttempt THEN attempt ELSE CapAttempt))

\* base_delay of lines 215-220
BaseDelay(attempt, hint) == IF hint # NoHint THEN HintBase(hint) ELSE GeometricBase(attempt)

\* a jitter of up to the whole base delay
JittersWide(base_delay) == {0, 2 * base_delay}

\* random.uniform(0, base_delay * 0.5) of line 222, in half seconds: its two ends
Jitters(base_delay) == {0, base_delay}

\* every status error is handled as a server error
IsServerErrorAny(answer) == TRUE

\* status_code >= 500, line 229
IsServerError(answer) == answer = "5xx"

\* one attempt more in the history of the call; delay is the sleep after it in
\* half seconds, 0 when the call did not sleep
Attempted(answer, hint, delay) ==
  Append(call.hist, [answer |-> answer, hint |-> hint, delay |-> delay])

\* asyncio.sleep(delay); continue
Continue(answer, hint, delay) ==
  call' = [call EXCEPT !.attempt = @ + 1, !.hist = Attempted(answer, hint, delay)]

\* raise: the exception of the attempt leaves _call_api
Raise(answer, hint) ==
  call' = [call EXCEPT !.st = "raised", !.err = answer, !.hist = Attempted(answer, hint, 0)]

\* everything but the call
jobState == <<ocr_result, jobs, uploads, ocr_provider, processing_mode, prod_passages, workers, doc_pages, status, total_pages, processed_pages, question_pages,
              skipped_pages, extracted_questions, imported_questions, retry_count,
              error_message, actual_cost_cents, celery_task_id, pages, questions, nextQ,
              prod, tasks, resp>>

jobVars == <<jobState, peer, procs>>

\* lines 153-191: a call enters the loop with attempt 0
call_api ==
  /\ call.st \in {"idle", "returned", "raised"}
  /\ call' = [st |-> "running", attempt |-> 0, hist |-> <<>>, err |-> "-"]
  /\ UNCHANGED jobVars

\* lines 193-201: the response is returned
Returned ==
  /\ call.st = "running" /\ call.attempt < rate_limit_retries
  /\ call' = [call EXCEPT !.st = "returned", !.hist = Attempted("ok", NoHint, 0)]
  /\ UNCHANGED jobVars

\* lines 202-207: except httpx.TimeoutException
TimeoutException ==
  /\ call.st = "running" /\ call.attempt < rate_limit_retries
  /\ IF call.attempt < max_retries - 1
     THEN Continue("timeout", NoHint, HalfSeconds(BackoffDelay(call.attempt)))
     ELSE Raise("timeout", NoHint)
  /\ UNCHANGED jobVars

\* lines 208-233: except httpx.HTTPStatusError
HTTPStatusError(answer, hint, jitter) ==
  /\ call.st = "running" /\ call.attempt < rate_limit_retries
  /\ answer \in {"429", "5xx", "4xx"}
  /\ IF answer = "429"
     THEN IF call.attempt < rate_limit_retries - 1
          THEN /\ jitter \in Jitters(BaseDelay(call.attempt, hint))
               /\ Continue("429", hint, HalfSeconds(BaseDelay(call.attempt, hint)) + jitter)
          ELSE /\ jitter = 0
               /\ Raise("429", hint)
     ELSE /\ hint = NoHint /\ jitter = 0
          /\ IF IsServerError(answer) /\ call.attempt < max_retries - 1
             THEN Continue(answer, NoHint, HalfSeconds(BackoffDelay(call.attempt)))
             ELSE Raise(answer, NoHint)
  /\ UNCHANGED jobVars

\* an exception that no except clause of the loop names
OtherException ==
  /\ call.st = "running" /\ call.attempt < rate_limit_retries
  /\ Raise("other", NoHint)
  /\ UNCHANGED jobVars

\* the values settings.ocr_max_retries takes: an int with no lower limit in
\* config.py, 0 turns the retries off
RetrySettings == 0 .. ocr_max_retries

\* the loop of lines 191-233 for a setting m of ocr_max_retries, from the attempt
\* index attempt on, when the provider gives answers[k] to the k-th attempt: the
\* way the call ends and the attempts it has made.  When range(2 * m) is used
\* up the function ends with no return statement and gives None
RECURSIVE RetryLoop(_, _, _)
RetryLoop(m, answers, attempt) ==
  IF attempt >= m * 2 THEN [st |-> "none", attempts |-> attempt, err |-> "-"]
  ELSE LET answer == answers[attempt + 1]
           raise  == [st |-> "raised", attempts |-> attempt + 1, err |-> answer]
       IN IF answer = "ok"
          THEN [st |-> "returned", attempts |-> attempt + 1, err |-> "-"]
          ELSE IF answer = "timeout"
          THEN IF attempt < m - 1 THEN RetryLoop(m, answers, attempt + 1) ELSE raise
          ELSE IF answer = "429"
          THEN IF attempt < m * 2 - 1 THEN RetryLoop(m, answers, attempt + 1) ELSE raise
          ELSE IF answer = "5xx" /\ attempt < m - 1
          THEN RetryLoop(m, answers, attempt + 1)
          ELSE raise

\* a call of _call_api under the setting m, with the answers the provider will
\* give to its attempts
call_api_with(m, answers) ==
  /\ call = NoCall
  /\ call' = [st |-> RetryLoop(m, answers, 0).st,
              attempt |-> RetryLoop(m, answers, 0).attempts,
              hist |-> answers,
              err |-> RetryLoop(m, answers, 0).err,
              max_retries |-> m]
  /\ UNCHANGED jobVars

\* no other call has met a 429 together with this one
NoPeer == [attempt |-> -1, hint |-> NoHint, delay |-> 0]

\* lines 212-225 in two calls at once: the call and a call for another page are
\* at the same attempt index and get a 429 with the same Retry-After at the same
\* instant; each computes its delay with a jitter of its own
Concurrent429(hint, jitter, jitter2) ==
  /\ call.st = "running" /\ call.attempt < rate_limit_retries - 1
  /\ jitter \in Jitters(BaseDelay(call.attempt, hint))
  /\ jitter2 \in Jitters(BaseDelay(call.attempt, hint))
  /\ Continue("429", hint, HalfSeconds(BaseDelay(call.attempt, hint)) + jitter)
  /\ peer' = [attempt |-> call.attempt, hint |-> hint,
              delay |-> HalfSeconds(BaseDelay(call.attempt, hint)) + jitter2]
  /\ UNCHANGED <<jobState, procs>>

\* -------------------------------------------------- the concurrency limiter
\* OCRJob.ocr_provider
JobProviders == {"openrouter", "hybrid", "openai", "deepinfra"}

\* ocr_provider and struct_provider of ocr_tasks.py:483-500
OcrProvider(pv) == IF pv = "hybrid" THEN "openai" ELSE pv

StructProvider(pv) == IF pv \in {"openrouter", "openai"} THEN pv ELSE "deepinfra"

\* max_concurrent of ocr_tasks.py:483-500 (50, 10, 5, 10), in the proportion it has
\* to ocr_max_concurrent_pages
max_concurrent(pv) ==
  IF pv = "openrouter" THEN 5 * ocr_max_concurrent_pages
  ELSE IF pv = "openai" THEN (ocr_max_concurrent_pages + 1) \div 2
  ELSE ocr_max_concurrent_pages

\* a worker process whose task has no provider call under way
NoGather == [provider |-> "-", cap |-> 0, waiting |-> 0, inflight |-> 0]

\* ocr_tasks.py:531-541 and 556-570: the task of worker process w gathers n
\* coroutines, each of which calls the provider of the phase through ocr_client
Gather(w, n, pv, phase) ==
  /\ procs[w] = NoGather
  /\ procs' = [procs EXCEPT ![w] =
       [provider |-> IF phase = "ocr" THEN OcrProvider(pv) ELSE StructProvider(pv),
        cap |-> max_concurrent(pv), waiting |-> n, inflight |-> 0]]
  /\ UNCHANGED <<jobState, call, peer>>

\* async with semaphore (ocr_tasks.py:534, 559) and async with self._semaphore
\* (ocr_service.py:162): the semaphore of the task and the semaphore of the
\* ocr_client of the worker process both have a free slot
FreeSlot(w) ==
  /\ procs[w].inflight < procs[w].cap
  /\ procs[w].inflight < ocr_max_concurrent_pages

\* a coroutine of worker process w enters _call_api and posts its request
Acquire(w) ==
  /\ procs[w].waiting > 0
  /\ FreeSlot(w)
  /\ procs' = [procs EXCEPT ![w].waiting = @ - 1, ![w].inflight = @ + 1]
  /\ UNCHANGED <<jobState, call, peer>>

\* a request of worker process w is answered and its coroutine leaves _call_api;
\* the gather is over with the last of them
Release(w) ==
  /\ procs[w].inflight > 0
  /\ procs' = [procs EXCEPT ![w] =
       IF @.waiting = 0 /\ @.inflight = 1 THEN NoGather ELSE [@ EXCEPT !.inflight = @ - 1]]
  /\ UNCHANGED <<jobState, call, peer>>

\* ------------------------------------------------------------- Init
\* ------------------------------------------------------ _is_question_page
\* the markdown of a page is a sequence of pieces, each a run of characters:
\*   "sp"    one whitespace character
\*   "#"     a markdown heading marker with its blank ("# ")
\*   "key"   the words "Answer Key", in any case
\*   "opts"  enumerated options "A) .. B) .. C) .. D) .."
\*   "ad"    the word "advertisement"
\*   "instr" the word "Instructions:"
\*   "text"  prose in which no pattern of the classifier matches
Pieces == {"sp", "#", "key", "opts", "ad", "instr", "text"}

\* the number of characters of a piece
Chars(piece) ==
  CASE piece = "sp" -> 1
    [] piece = "#" -> 2
    [] piece = "key" -> 10
    [] piece = "opts" -> 40
    [] piece = "ad" -> 13
    [] piece = "instr" -> 13
    [] piece = "text" -> 55

RECURSIVE Length(_)
Length(text) == IF text = <<>> THEN 0 ELSE Chars(Head(text)) + Length(Tail(text))

\* str.strip(): the text without its leading and trailing whitespace
RECURSIVE LStrip(_)
LStrip(text) ==
  IF text # <<>> /\ Head(text) = "sp" THEN LStrip(Tail(text)) ELSE text

RECURSIVE RStrip(_)
RStrip(text) ==
  IF text # <<>> /\ text[Len(text)] = "sp" THEN RStrip(SubSeq(text, 1, Len(text) - 1)) ELSE text

Strip(text) == RStrip(LStrip(text))

\* a classifier without the option patterns
MatchesQuestionNever(text) == FALSE

\* lines 309-325: re.search of a question pattern; of the pieces only the
\* options hold one (\b(a\)|b\)|c\)|d\)))
MatchesQuestion(text) == \E i \in 1 .. Len(text) : text[i] = "opts"

\* lines 327-337: re.search of a non-question pattern in the text as it is.
\* Without re.MULTILINE ^ is the start of the text and $ its end:
\*   ^answer\s*key         the text begins with the words
\*   advertisement         the word is anywhere
\*   ^instructions?:?\s*$  the text is the word and whitespace after it
MatchesNonQuestion(text) ==
  \/ text # <<>> /\ Head(text) = "key"
  \/ \E i \in 1 .. Len(text) : text[i] = "ad"
  \/ /\ text # <<>> /\ Head(text) = "instr"
     /\ \A i \in 2 .. Len(text) : text[i] = "sp"

\* OCRClient._is_question_page, ocr_service.py:299-347
is_question_page(text) ==
  IF Length(Strip(text)) < 50 THEN FALSE
  ELSE IF MatchesNonQuestion(text) THEN FALSE
  ELSE IF MatchesQuestion(text) THEN TRUE
  ELSE Length(Strip(text)) > 150

\* no call of extract_text yet
NoResult == [st |-> "-", markdown |-> <<>>, is_question_page |-> FALSE]

\* the texts the provider returns
RECURSIVE Texts(_)
Texts(n) ==
  IF n = 0 THEN {<<>>}
  ELSE LET shorter == Texts(n - 1)
       IN shorter \cup {Append(t, c) : t \in {x \in shorter : Len(x) = n - 1}, c \in Pieces}

\* OCRClient.extract_text, ocr_service.py:278-297: the provider returned the
\* markdown of the page and the classifier is applied to it
extract_text(text) ==
  /\ ocr_result = NoResult
  /\ ocr_result' = [st |-> "done", markdown |-> text,
                    is_question_page |-> is_question_page(text)]
  /\ UNCHANGED <<jobAll, jobs, uploads>>

\* ------------------------------------------- uploads of one file by one user
\* the requests: none has arrived
NoUploads == [u \in 1 .. MaxUploads |-> [pc |-> "-", code |-> 0]]

\* status.in_([PENDING, PROCESSING, REVIEW]), ocr.py:301
Active == {PENDING, PROCESSING, REVIEW}

ActiveJobs == {j \in 1 .. Len(jobs) : jobs[j].status \in Active}

\* ocr.py:297-310: the query for a job of the user with the hash of the file in an
\* active status
Existing == ActiveJobs

\* what the upload actions leave alone
uploadRest == <<jobAll, ocr_result>>

\* ocr.py:285-310: the request reads the file and looks for an existing job; it
\* answers 409 when it finds one (scalar_one_or_none raises when it finds two)
UploadCheck(u) ==
  /\ uploads[u].pc = "-"
  /\ uploads' = [uploads EXCEPT ![u] =
       IF Existing = {} THEN [pc |-> "checked", code |-> 0]
       ELSE IF Cardinality(Existing) = 1 THEN [pc |-> "done", code |-> 409]
       ELSE [pc |-> "done", code |-> 500]]
  /\ UNCHANGED <<uploadRest, jobs>>

\* ocr.py:312-363: the file is saved, the job row is inserted as PENDING,
\* process_pdf_job is queued, commit
UploadInsert(u) ==
  /\ uploads[u].pc = "checked"
  /\ jobs' = Append(jobs, [status |-> PENDING, retry_count |-> 0, queued |-> TRUE])
  /\ uploads' = [uploads EXCEPT ![u] = [pc |-> "done", code |-> 200]]
  /\ UNCHANGED uploadRest

\* ocr_tasks.py:95-99: the queued process_pdf_job of the job starts
JobStart(j) ==
  /\ jobs[j].queued
  /\ jobs' = [jobs EXCEPT ![j] = [@ EXCEPT !.status = PROCESSING, !.queued = FALSE]]
  /\ UNCHANGED <<uploadRest, uploads>>

\* ocr_tasks.py:274-293: the run ends past the loop
JobReview(j) ==
  /\ jobs[j].status = PROCESSING /\ ~jobs[j].queued
  /\ jobs' = [jobs EXCEPT ![j] = [@ EXCEPT !.status = REVIEW]]
  /\ UNCHANGED <<uploadRest, uploads>>

\* ocr_tasks.py:295-305: the run raises; the job is FAILED and, under the retry
\* limit, the task goes back to the queue
JobFail(j) ==
  /\ jobs[j].status = PROCESSING /\ ~jobs[j].queued
  /\ jobs' = [jobs EXCEPT ![j] =
       [status |-> FAILED, retry_count |-> @.retry_count + 1,
        queued |-> (@.retry_count + 1 < ocr_max_retries)]]
  /\ UNCHANGED <<uploadRest, uploads>>

Setup(w) ==
  /\ workers = w
  /\ doc_pages = 0
  /\ status = NONE
  /\ total_pages = 0
  /\ processed_pages = 0
  /\ question_pages = 0
  /\ skipped_pages = 0
  /\ extracted_questions = 0
  /\ imported_questions = 0
  /\ retry_count = 0
  /\ error_message = ""
  /\ actual_cost_cents = 0
  /\ celery_task_id = 0
  /\ pages = <<>>
  /\ questions = {}
  /\ nextQ = 1
  /\ prod = <<>>
  /\ tasks = <<>>
  /\ call = NoCall
  /\ peer = NoPeer
  /\ procs = [i \in 1 .. w |-> NoGather]
  /\ ocr_provider = "hybrid"
  /\ processing_mode = "balanced"
  /\ prod_passages = <<>>
  /\ jobs = <<>>
  /\ ocr_result = NoResult
  /\ uploads = NoUploads
  /\ resp = [op |-> "-", from |-> NONE, code |-> 0]

Init == Setup(Workers)

\* the response an endpoint gives; a specification that does not observe the
\* responses passes log = FALSE
Resp(log, op, code) == IF log THEN [op |-> op, from |-> status, code |-> code] ELSE resp

\* ------------------------------------------------------------- upload
\* POST /upload: create the job row and queue process_pdf_job
upload_pdf(log, n) ==
  /\ status = NONE
  /\ doc_pages' = n
  /\ status' = PENDING
  /\ total_pages' = n
  /\ tasks' = Delay(tasks, "process", {}, FALSE)
  /\ celery_task_id' = Len(tasks')
  /\ resp' = Resp(log, "upload", 200)
  /\ UNCHANGED <<aside, workers, processed_pages, question_pages, skipped_pages,
                 extracted_questions, imported_questions, retry_count, error_message,
                 actual_cost_cents, pages, questions, nextQ, prod>>

\* ------------------------------------------------------ process_pdf_job
\* sum(p.ocr_cost_cents + p.structuring_cost_cents for p in ...) over a list of rows
RECURSIVE PagesCost(_)
PagesCost(pg) ==
  IF pg = <<>> THEN 0
  ELSE Head(pg).ocr_cost_cents + Head(pg).structuring_cost_cents + PagesCost(Tail(pg))

\* lines 83-99: load the job with its pages, mark it PROCESSING, commit
PStart(t) ==
  /\ tasks[t].kind = "process" /\ tasks[t].st = "queued" /\ FreeWorker
  /\ status' = PROCESSING
  /\ celery_task_id' = t
  /\ tasks' = [tasks EXCEPT ![t] =
       [@ EXCEPT !.st = "running", !.pc = "open", !.lost = 0, !.countdown = 0,
                 !.done = NumsOf({j \in PageIds : pages[j].ocr_completed}),
                 !.lp = processed_pages, !.lq = question_pages, !.ls = skipped_pages,
                 !.leq = extracted_questions, !.lretry = retry_count,
                 !.lerr = error_message, !.lcost = PagesCost(pages),
                 !.lact = actual_cost_cents]]
  /\ UNCHANGED <<jobCounters, pages, questions, nextQ, prod, resp>>

\* lines 102-126: the PDF opens, total_pages is committed, the batch loop starts
POpen(t) ==
  /\ tasks[t].kind = "process" /\ tasks[t].st = "running" /\ tasks[t].pc = "open"
  /\ total_pages' = doc_pages
  /\ LET b == SkipEmpty(tasks[t].done, 0)
     IN tasks' = [tasks EXCEPT ![t] =
          [@ EXCEPT !.pc = IF b = doc_pages THEN "finish" ELSE "batch", !.batch = b]]
  /\ UNCHANGED <<aside, workers, doc_pages, status, processed_pages, question_pages, skipped_pages,
                 extracted_questions, imported_questions, retry_count, error_message,
                 actual_cost_cents, celery_task_id, pages, questions, nextQ, prod, resp>>

\* lines 133-186 and process_single_page: the next page of the batch goes through
\* the provider; its result waits, in memory, for the rest of the batch
PCall(t) ==
  /\ tasks[t].kind = "process" /\ tasks[t].st = "running" /\ tasks[t].pc = "batch"
  /\ Todo(tasks[t]) # {}
  /\ LET p == Min(Todo(tasks[t]))
     IN tasks' = [tasks EXCEPT ![t] =
          [@ EXCEPT !.buf = Append(@, p), !.called = @ \cup {p},
                    !.ocr_with = OcrProvider(ocr_provider),
                    !.struct_with = StructProvider(ocr_provider)]]
  /\ UNCHANGED <<status, jobCounters, celery_task_id, pages, questions, nextQ, prod, resp>>

\* lines 188-255: the results of the batch become rows, the counters advance, commit.
\* f is the result process_single_page gave for each page of the batch
PSave(t, f) ==
  /\ tasks[t].kind = "process" /\ tasks[t].st = "running" /\ tasks[t].pc = "batch"
  /\ Todo(tasks[t]) = {} /\ tasks[t].buf # <<>>
  /\ DOMAIN f = BufPages(tasks[t])
  /\ LET tk == tasks[t]
         nQ == CountQuestions(tk.buf, f)
         nP == nQ + CountOut(tk.buf, f, "serr")
         nS == Len(tk.buf) - nP
         b  == SkipEmpty(tk.done, tk.batch + ocr_batch_size)
     IN /\ pages' = SaveRows(pages, tk.buf, f)
        /\ questions' = questions \cup SaveQuestions(tk.buf, f, Len(pages) + 1, nextQ)
        /\ nextQ' = nextQ + nQ
        /\ processed_pages' = tk.lp + Len(tk.buf)
        /\ question_pages' = IF nP > 0 THEN tk.lq + nP ELSE question_pages
        /\ skipped_pages' = IF nS > 0 THEN tk.ls + nS ELSE skipped_pages
        /\ extracted_questions' = IF tk.nq + nQ # tk.leq THEN tk.nq + nQ ELSE extracted_questions
        /\ tasks' = [tasks EXCEPT ![t] =
             [@ EXCEPT !.buf = <<>>, !.lp = @ + Len(tk.buf), !.lq = @ + nP, !.ls = @ + nS,
                       !.nq = @ + nQ, !.leq = tk.nq + nQ,
                       !.pc = IF b = doc_pages THEN "finish" ELSE "batch", !.batch = b]]
  /\ UNCHANGED <<aside, workers, doc_pages, status, total_pages, imported_questions, retry_count,
                 error_message, actual_cost_cents, celery_task_id, prod, resp>>

\* job.pages at line 280: the collection the run loaded with the job
\* (selectinload, line 85).  The rows the run added are built with job_id and are
\* not in it, and no commit expires it (expire_on_commit=False, line 55)
CostOfJobPages(tk) == tk.lcost

\* lines 269-293: the loop is exhausted, the job goes to REVIEW with the cost of
\* job.pages
PFinish(t) ==
  /\ tasks[t].kind = "process" /\ tasks[t].st = "running" /\ tasks[t].pc = "finish"
  /\ status' = REVIEW
  /\ extracted_questions' = IF tasks[t].nq # tasks[t].leq THEN tasks[t].nq ELSE extracted_questions
  /\ actual_cost_cents' = IF CostOfJobPages(tasks[t]) # tasks[t].lact
                          THEN CostOfJobPages(tasks[t]) ELSE actual_cost_cents
  /\ tasks' = [tasks EXCEPT ![t] = Finished(@)]
  /\ UNCHANGED <<aside, workers, doc_pages, total_pages, processed_pages, question_pages, skipped_pages,
                 imported_questions, retry_count, error_message, celery_task_id, pages,
                 questions, nextQ, prod, resp>>

\* the error of a page of the batch raised out of the batch call as well
RaisesWithResults(tk, cause) ==
  IF cause = "open" THEN tk.pc = "open" ELSE tk.pc = "batch"

\* where in the try block a cause raises: the PDF before the loop (lines 102-112),
\* a page or the batch call at the start of a batch (lines 133-186)
RaisesAt(tk, cause) ==
  IF cause = "open" THEN tk.pc = "open" ELSE tk.pc = "batch" /\ tk.buf = <<>>

\* task.retry(exc=e, countdown=60 * job.retry_count), whatever the count is
RetryAlways(tk) == TRUE

\* if job.retry_count < settings.ocr_max_retries, line 303
RetryUnderLimit(tk) == tk.lretry + 1 < ocr_max_retries

\* str(e) of line 297; a specification that does not look at the text of the
\* error passes log = FALSE
ErrorText(log, cause) == IF log THEN cause ELSE "error"

\* countdown=60 * job.retry_count of line 305, in seconds; a specification that
\* does not look at the countdown passes log = FALSE
Countdown(log, n) == IF log THEN 60 * n ELSE 0

\* lines 295-305: an exception of the try block: FAILED, the error, one more
\* retry, requeue under the limit with a countdown of 60 * retry_count
PExcept(t, log, cause) ==
  /\ tasks[t].kind = "process" /\ tasks[t].st = "running"
  /\ RaisesAt(tasks[t], cause)
  /\ status' = FAILED
  /\ error_message' = IF ErrorText(log, cause) # tasks[t].lerr
                      THEN ErrorText(log, cause) ELSE error_message
  /\ retry_count' = tasks[t].lretry + 1
  /\ tasks' = [tasks EXCEPT ![t] =
       IF RetryUnderLimit(tasks[t])
       THEN [Requeued(@) EXCEPT !.countdown = Countdown(log, tasks[t].lretry + 1)]
       ELSE Finished(@)]
  /\ UNCHANGED <<aside, workers, doc_pages, total_pages, processed_pages, question_pages, skipped_pages,
                 extracted_questions, imported_questions, actual_cost_cents, celery_task_id,
                 pages, questions, nextQ, prod, resp>>

\* the worker process of a running task is lost.  The open transaction and what
\* the task held in memory are gone; task_acks_late with task_reject_on_worker_lost
\* (celery_config.py) put the task back on the queue.  lost keeps, until the task
\* starts again, how many page results the process held that no commit had written
WorkerLost(t) ==
  /\ tasks[t].st = "running"
  /\ tasks' = [tasks EXCEPT ![t] = [Requeued(@) EXCEPT !.lost = Len(tasks[t].buf)]]
  /\ UNCHANGED <<status, jobCounters, celery_task_id, pages, questions, nextQ, prod, resp>>

\* the hard task_time_limit kills a running task: it is not redelivered
TimeLimit(t) ==
  /\ tasks[t].st = "running"
  /\ tasks' = [tasks EXCEPT ![t] = Finished(@)]
  /\ UNCHANGED <<status, jobCounters, celery_task_id, pages, questions, nextQ, prod, resp>>

\* ------------------------------------------------------- cancel_ocr_job
\* celery_app.control.revoke(id, terminate=True): the task with that id is dropped
\* from the queue, or the worker process that runs it is killed
Revoke(tk, id) ==
  IF id \in 1 .. Len(tk) /\ tk[id].st \in {"queued", "running"}
  THEN [tk EXCEPT ![id] = Finished(@)] ELSE tk

\* _cancel_ocr_job_async, lines 419-440
CancelTask(t) ==
  /\ tasks[t].kind = "cancel" /\ tasks[t].st = "queued" /\ FreeWorker
  /\ IF status \in {PENDING, PROCESSING}
     THEN /\ status' = CANCELLED
          /\ tasks' = [Revoke(tasks, celery_task_id) EXCEPT ![t] = Finished(@)]
     ELSE /\ tasks' = [tasks EXCEPT ![t] = Finished(@)]
          /\ UNCHANGED status
  /\ UNCHANGED <<jobCounters, celery_task_id, pages, questions, nextQ, prod, resp>>

\* ---------------------------------------------------- retry_failed_pages
\* _retry_failed_pages_async, lines 651-701 (page_numbers is never empty: both
\* endpoints pass the page numbers they found)
RetryTask(t) ==
  /\ tasks[t].kind = "retry" /\ tasks[t].st = "queued" /\ FreeWorker
  /\ LET rows == {i \in PageIds : pages[i].page_number \in tasks[t].args}
     IN IF rows = {}
        THEN /\ tasks' = [tasks EXCEPT ![t] = Finished(@)]
             /\ UNCHANGED <<status, pages, processing_mode>>
        ELSE /\ CanDelay(1)
             /\ status' = PROCESSING
             /\ processing_mode' = IF tasks[t].provider THEN "quality" ELSE processing_mode
             /\ pages' = [i \in PageIds |->
                  IF i \in rows
                  THEN [pages[i] EXCEPT !.ocr_completed = FALSE,
                                        !.structuring_completed = FALSE, !.error = FALSE,
                                        !.provider_used =
                                           IF tasks[t].provider THEN "deepinfra" ELSE @]
                  ELSE pages[i]]
             /\ tasks' = Delay([tasks EXCEPT ![t] = Finished(@)], "process", {}, FALSE)
  /\ UNCHANGED <<ocr_result, call, peer, procs, ocr_provider, prod_passages, jobs, uploads, workers, doc_pages, total_pages,
                 processed_pages, question_pages, skipped_pages, extracted_questions,
                 imported_questions, retry_count, error_message, actual_cost_cents,
                 celery_task_id, questions, nextQ, prod, resp>>

\* ----------------------------------------------- structure_skipped_pages
\* lines 462-481: load the job with its pages, find the pages, mark PROCESSING, commit
SStart(t) ==
  /\ tasks[t].kind = "skipped" /\ tasks[t].st = "queued" /\ FreeWorker
  /\ IF {i \in PageIds : pages[i].page_number \in tasks[t].args} = {}
     THEN /\ tasks' = [tasks EXCEPT ![t] = Finished(@)]
          /\ UNCHANGED status
     ELSE /\ status' = PROCESSING
          /\ tasks' = [tasks EXCEPT ![t] =
               [@ EXCEPT !.st = "running", !.pc = "work", !.npg = Len(pages),
                         !.snap = {i \in PageIds : pages[i].is_question_page},
                         !.lq = question_pages, !.ls = skipped_pages,
                         !.leq = extracted_questions]]
  /\ UNCHANGED <<jobCounters, celery_task_id, pages, questions, nextQ, prod, resp>>

\* rows in the order of job.pages (order_by page_number), below row id n
RECURSIVE RowsInOrder(_)
RowsInOrder(ids) ==
  IF ids = {} THEN <<>>
  ELSE LET m == CHOOSE i \in ids : \A j \in ids :
                  \/ pages[i].page_number < pages[j].page_number
                  \/ (pages[i].page_number = pages[j].page_number /\ i <= j)
       IN <<m>> \o RowsInOrder(ids \ {m})

\* ExtractedQuestion rows of the pages whose structuring returned questions
RECURSIVE SkippedQuestions(_, _, _)
SkippedQuestions(rows, f, qid) ==
  IF rows = <<>> THEN {}
  ELSE IF f[Head(rows)] = "q"
       THEN {NewQuestion(qid, Head(rows), "q")} \cup SkippedQuestions(Tail(rows), f, qid + 1)
       ELSE SkippedQuestions(Tail(rows), f, qid)

\* every page of the task is rendered and sent to OCR
NeedsOcrAlways(i) == TRUE

\* if not page.ocr_markdown and doc, line 513: the page is rendered and sent to
\* OCR only when no markdown is stored for it
NeedsOcr(i) == ~pages[i].markdown

\* lines 483-628: OCR for the pages without markdown, structuring for the pages
\* with markdown, the job counters, REVIEW.  f gives the outcome per page row:
\*   "q" structuring returned questions, "none" it returned none,
\*   "ocrfail" the page had no markdown and its OCR call raised
SWork(t, f) ==
  /\ tasks[t].kind = "skipped" /\ tasks[t].st = "running" /\ tasks[t].pc = "work"
  /\ LET tk   == tasks[t]
         rows == {i \in 1 .. tk.npg : pages[i].page_number \in tk.args}
         got  == {i \in rows : f[i] = "q"}
         isq  == tk.snap \cup got
         nqp  == Cardinality(isq)
         nsk  == tk.npg - nqp
     IN /\ DOMAIN f = rows
        /\ \A i \in rows : f[i] = "ocrfail" => NeedsOcr(i)
        /\ pages' = [i \in PageIds |->
             IF i \notin rows THEN pages[i]
             ELSE IF f[i] = "ocrfail"
                  THEN [pages[i] EXCEPT !.error = TRUE, !.reocr = TRUE]
             ELSE IF f[i] = "q"
                  THEN [pages[i] EXCEPT !.markdown = TRUE, !.is_question_page = TRUE,
                                        !.structuring_completed = TRUE,
                                        !.reocr = @ \/ NeedsOcr(i)]
                  ELSE [pages[i] EXCEPT !.markdown = TRUE, !.reocr = @ \/ NeedsOcr(i)]]
        /\ questions' = questions \cup SkippedQuestions(RowsInOrder(rows), f, nextQ)
        /\ nextQ' = nextQ + Cardinality(got)
        /\ extracted_questions' = IF got # {} THEN tk.leq + Cardinality(got)
                                  ELSE extracted_questions
        /\ question_pages' = IF nqp # tk.lq THEN nqp ELSE question_pages
        /\ skipped_pages' = IF nsk # tk.ls THEN nsk ELSE skipped_pages
        /\ status' = REVIEW
        /\ tasks' = [tasks EXCEPT ![t] = Finished(@)]
  /\ UNCHANGED <<aside, workers, doc_pages, total_pages, processed_pages, imported_questions, retry_count,
                 error_message, actual_cost_cents, celery_task_id, prod, resp>>

\* a statement of lines 483-527 raises (the download or the rendering of a page,
\* the soft time limit): _structure_skipped_pages_async has no except clause, the
\* exception leaves the task, the session closes and the PROCESSING that line
\* 481 committed stays
SRaise(t) ==
  /\ tasks[t].kind = "skipped" /\ tasks[t].st = "running" /\ tasks[t].pc = "work"
  /\ tasks' = [tasks EXCEPT ![t] = Finished(@)]
  /\ UNCHANGED <<status, jobCounters, celery_task_id, pages, questions, nextQ, prod, resp>>

\* ------------------------------------------------------------ endpoints
\* POST /jobs/{id}/cancel
cancel_job(log) ==
  /\ status # NONE
  /\ IF status \in {PENDING, PROCESSING}
     THEN /\ CanDelay(1)
          /\ tasks' = Delay(tasks, "cancel", {}, FALSE)
          /\ resp' = Resp(log, "cancel", 200)
     ELSE /\ resp' = Resp(log, "cancel", 400)
          /\ UNCHANGED tasks
  /\ UNCHANGED <<status, jobCounters, celery_task_id, pages, questions, nextQ, prod>>

\* a resume that takes a job of any status
resume_job_any(log) ==
  /\ status # NONE
  /\ CanDelay(1)
  /\ tasks' = Delay(tasks, "process", {}, FALSE)
  /\ celery_task_id' = Len(tasks')
  /\ status' = PROCESSING
  /\ resp' = Resp(log, "resume", 200)
  /\ UNCHANGED <<jobCounters, pages, questions, nextQ, prod>>

\* POST /jobs/{id}/resume
resume_job(log) ==
  /\ status # NONE
  /\ IF status \in {PENDING, PROCESSING}
     THEN /\ CanDelay(1)
          /\ tasks' = Delay(tasks, "process", {}, FALSE)
          /\ celery_task_id' = Len(tasks')
          /\ resp' = Resp(log, "resume", 200)
     ELSE /\ resp' = Resp(log, "resume", 400)
          /\ UNCHANGED <<tasks, celery_task_id>>
  /\ UNCHANGED <<status, jobCounters, pages, questions, nextQ, prod>>

\* rows a page_numbers filter keeps ({} stands for no filter)
Filter(rows, sel) == IF sel = {} THEN rows ELSE {i \in rows : pages[i].page_number \in sel}

\* POST /jobs/{id}/process-skipped
process_skipped_pages(log, sel) ==
  /\ status # NONE
  /\ LET rows == Filter({i \in PageIds : ~pages[i].is_question_page}, sel)
     IN IF rows = {}
        THEN UNCHANGED tasks
        ELSE /\ CanDelay(1)
             /\ tasks' = Delay(tasks, "skipped", NumsOf(rows), FALSE)
  /\ resp' = Resp(log, "process-skipped", 200)
  /\ UNCHANGED <<status, jobCounters, celery_task_id, pages, questions, nextQ, prod>>

\* rows the retry-failed query selects
FailedRows(sel) == Filter({i \in PageIds : pages[i].error \/ ~pages[i].ocr_completed}, sel)

\* POST /jobs/{id}/retry-failed
retry_failed_pages_endpoint(log, sel, use_quality_provider) ==
  /\ status # NONE
  /\ IF status \notin {REVIEW, FAILED} \/ FailedRows(sel) = {}
     THEN /\ resp' = Resp(log, "retry-failed", 400)
          /\ UNCHANGED <<status, pages, tasks>>
     ELSE /\ CanDelay(2)
          /\ pages' = [i \in PageIds |->
               IF pages[i].page_number \in NumsOf(FailedRows(sel))
               THEN [pages[i] EXCEPT !.error = FALSE] ELSE pages[i]]
          /\ status' = PROCESSING
          /\ tasks' = Delay(tasks, "retry", NumsOf(FailedRows(sel)), use_quality_provider)
          /\ resp' = Resp(log, "retry-failed", 200)
  /\ UNCHANGED <<jobCounters, celery_task_id, questions, nextQ, prod>>

\* POST /jobs/{id}/reextract-page
reextract_page_endpoint(log, p) ==
  /\ status # NONE
  /\ LET rows == {i \in PageIds : pages[i].page_number = p}
     IN IF status # REVIEW
        THEN /\ resp' = Resp(log, "reextract", 400)
             /\ UNCHANGED <<status, pages, questions, tasks>>
        ELSE IF rows = {}
        THEN /\ resp' = Resp(log, "reextract", 404)
             /\ UNCHANGED <<status, pages, questions, tasks>>
        ELSE IF Cardinality(rows) > 1
        THEN \* scalar_one_or_none raises MultipleResultsFound
             /\ resp' = Resp(log, "reextract", 500)
             /\ UNCHANGED <<status, pages, questions, tasks>>
        ELSE /\ CanDelay(2)
             /\ pages' = [i \in PageIds |->
                  IF i \in rows
                  THEN [pages[i] EXCEPT !.ocr_completed = FALSE,
                                        !.structuring_completed = FALSE, !.error = FALSE]
                  ELSE pages[i]]
             /\ questions' = {q \in questions : q.page \notin rows}
             /\ status' = PROCESSING
             /\ tasks' = Delay(tasks, "retry", {p}, TRUE)
             /\ resp' = Resp(log, "reextract", 200)
  /\ UNCHANGED <<jobCounters, celery_task_id, nextQ, prod>>

\* POST /questions/bulk-review for one question id
bulk_review_questions(log, qid, action) ==
  /\ \E q \in questions : q.id = qid
  /\ questions' = {IF q.id = qid
                   THEN [q EXCEPT !.review_status =
                           IF action = "approve" THEN "approved" ELSE "rejected"]
                   ELSE q : q \in questions}
  /\ resp' = Resp(log, "bulk-review", 200)
  /\ UNCHANGED <<status, jobCounters, celery_task_id, pages, nextQ, prod, tasks>>

\* the import query without the imported_question_id filter
ImportRowsAny(sel) ==
  {q \in questions : /\ q.review_status = "approved"
                     /\ q.page \in PageIds
                     /\ (sel = {} \/ q.id \in sel)}

\* the import query: approved, not yet imported, optionally restricted to ids
ImportRows(sel) ==
  {q \in questions : /\ q.review_status = "approved"
                     /\ q.imported_question_id = 0
                     /\ q.page \in PageIds
                     /\ (sel = {} \/ q.id \in sel)}

\* order_by(ExtractedQuestion.id) alone
BeforeById(a, b) == a.id <= b.id

\* order_by(OCRJobPage.page_number, ExtractedQuestion.id)
Before(a, b) ==
  \/ pages[a.page].page_number < pages[b.page].page_number
  \/ (pages[a.page].page_number = pages[b.page].page_number /\ a.id <= b.id)

RECURSIVE ImportOrder(_)
ImportOrder(S) ==
  IF S = {} THEN <<>>
  ELSE LET m == CHOOSE a \in S : \A b \in S : Before(a, b)
       IN <<m>> \o ImportOrder(S \ {m})

\* the target module of import_questions; import_with_test makes a module of
\* its own with each call
TargetModule == 0

\* func.max(Question.question_number) where module_id is the target module, or 0
CurrentMax ==
  LET rows == {i \in 1 .. Len(prod) : prod[i].module = TargetModule}
  IN IF rows = {} THEN 0
     ELSE CHOOSE m \in {prod[i].question_number : i \in rows} :
            \A i \in rows : prod[i].question_number <= m

\* question_number=current_max + i + 1, line 969: i is the index of enumerate
\* (from 0) over the questions of the query
NumberByIndex(current_max, i) == current_max + i + 1

\* the loop of lines 966-989 goes over the questions of the query in their order.
\* failed holds the ids of the questions for which the try block raised: the
\* except clause notes the error and the loop goes on with the next index
\* POST /jobs/{id}/import; failed are the questions whose creation raises
import_questions(log, sel, failed) ==
  /\ status # NONE
  /\ failed \subseteq {q.id : q \in ImportRows(sel)}
  /\ IF ImportRows(sel) = {}
     THEN /\ resp' = Resp(log, "import", 400)
          /\ UNCHANGED <<status, imported_questions, questions, prod>>
     ELSE LET ord == ImportOrder(ImportRows(sel))
              idx == SelectSeq([i \in 1 .. Len(ord) |-> i], LAMBDA i : ord[i].id \notin failed)
              pos(q) == CHOOSE k \in 1 .. Len(idx) : ord[idx[k]] = q
          IN /\ prod' = prod \o [k \in 1 .. Len(idx) |->
                                  [question_number |-> NumberByIndex(CurrentMax, idx[k] - 1),
                                   module |-> TargetModule,
                                   passage_id |-> 0,
                                   source |-> ord[idx[k]].id,
                                   call |-> imported_questions]]
             /\ questions' = {IF q \in ImportRows(sel) /\ q.id \notin failed
                              THEN [q EXCEPT !.imported_question_id = Len(prod) + pos(q),
                                             !.review_status = "imported"]
                              ELSE q : q \in questions}
             /\ imported_questions' = imported_questions + Len(idx)
             /\ status' = COMPLETED
             /\ resp' = Resp(log, "import", 200)
  /\ UNCHANGED <<aside, workers, doc_pages, total_pages, processed_pages, question_pages, skipped_pages,
                 extracted_questions, retry_count, error_message, actual_cost_cents,
                 celery_task_id, pages, nextQ, tasks>>

\* the id of the TestModule a call of import_with_test creates
NewModule ==
  1 + (IF prod = <<>> THEN 0
       ELSE CHOOSE m \in {prod[i].module : i \in 1 .. Len(prod)} :
              \A i \in 1 .. Len(prod) : prod[i].module <= m)

\* data.test_config.modules: the question ranges of the modules of the new test
Ranges ==
  {r \in [question_start : 1 .. MaxRange, question_end : 1 .. MaxRange] :
     r.question_start <= r.question_end}

ModuleConfigs ==
  {<<>>} \cup {<<r>> : r \in Ranges} \cup {<<r1, r2>> : r1, r2 \in Ranges}

\* a test of one module that holds every question
OneModule == <<[question_start |-> 1, question_end |-> MaxRange]>>

\* module_map[(question_start, question_end)] = test_module, line 1118: the
\* module of the k-th configuration is created k-th, and a later configuration
\* with the same range takes the place of the earlier one in the dict
ModuleOf(modules, k) ==
  NewModule - 1 + (CHOOSE j \in 1 .. Len(modules) :
                     /\ modules[j] = modules[k]
                     /\ \A i \in 1 .. Len(modules) : modules[i] = modules[k] => i <= j)

\* the first range of module_map that holds idx, lines 1127-1131, or 0
RangeOf(modules, idx) ==
  LET hits == {k \in 1 .. Len(modules) :
                 modules[k].question_start <= idx /\ idx <= modules[k].question_end}
  IN IF hits = {} THEN 0 ELSE CHOOSE k \in hits : \A i \in hits : k <= i

\* target_module of the question at position idx, lines 1123-1137: the module of
\* its range, else the first module
target_module(modules, idx) ==
  IF RangeOf(modules, idx) # 0 THEN ModuleOf(modules, RangeOf(modules, idx))
  ELSE ModuleOf(modules, 1)

\* question_number_in_module, lines 1130 and 1137
question_number_in_module(modules, idx) ==
  IF RangeOf(modules, idx) # 0
  THEN idx - modules[RangeOf(modules, idx)].question_start + 1
  ELSE idx

\* no constraint on the numbers of a module
UniqueViolatedNever(modules, idx) == FALSE

\* UniqueConstraint("module_id", "question_number"): the flush of line 1173
\* raises when two questions of idx have the module and the number in common
UniqueViolated(modules, idx) ==
  \E a, b \in 1 .. Len(idx) :
    /\ a < b
    /\ target_module(modules, idx[a]) = target_module(modules, idx[b])
    /\ question_number_in_module(modules, idx[a]) = question_number_in_module(modules, idx[b])

\* POST /jobs/{id}/import-with-test, lines 1004-1200, for a test with the
\* modules of the request.  failed are the questions for which Question(...)
\* raises: the Passage of such a question was added and flushed before, and the
\* commit at the end keeps it.  Without modules every question is reported and
\* none is imported.  When a flush breaks the unique constraint the session
\* takes no statement any more, the commit of line 1189 raises and get_db
\* rolls the request back
import_with_test(log, sel, failed, modules) ==
  /\ status # NONE
  /\ failed \subseteq {q.id : q \in ImportRows(sel)}
  /\ modules = <<>> => failed = {}
  /\ Len(prod_passages) + Cardinality({q \in ImportRows(sel) : q.passage_text # ""})
       <= MaxPassages
  /\ IF ImportRows(sel) = {}
     THEN /\ resp' = Resp(log, "import-with-test", 400)
          /\ UNCHANGED <<status, imported_questions, questions, prod, prod_passages>>
     ELSE IF modules = <<>>
     THEN /\ status' = COMPLETED
          /\ resp' = Resp(log, "import-with-test", 200)
          /\ UNCHANGED <<imported_questions, questions, prod, prod_passages>>
     ELSE IF LET ord == ImportOrder(ImportRows(sel))
             IN UniqueViolated(modules, SelectSeq([i \in 1 .. Len(ord) |-> i],
                                                  LAMBDA i : ord[i].id \notin failed))
     THEN /\ resp' = Resp(log, "import-with-test", 500)
          /\ UNCHANGED <<status, imported_questions, questions, prod, prod_passages>>
     ELSE LET ord == ImportOrder(ImportRows(sel))
              all == [i \in 1 .. Len(ord) |-> i]
              idx == SelectSeq(all, LAMBDA i : ord[i].id \notin failed)
              txt == SelectSeq(all, LAMBDA i : ord[i].passage_text # "")
              pos(q) == CHOOSE k \in 1 .. Len(idx) : ord[idx[k]] = q
              passage_id(i) ==
                IF ord[i].passage_text = "" THEN 0
                ELSE Len(prod_passages) + (CHOOSE k \in 1 .. Len(txt) : txt[k] = i)
          IN /\ prod_passages' = prod_passages \o
                  [k \in 1 .. Len(txt) |-> [content |-> ord[txt[k]].passage_text]]
             /\ prod' = prod \o [k \in 1 .. Len(idx) |->
                                  [question_number |-> question_number_in_module(modules, idx[k]),
                                   module |-> target_module(modules, idx[k]),
                                   passage_id |-> passage_id(idx[k]),
                                   source |-> ord[idx[k]].id,
                                   call |-> imported_questions]]
             /\ questions' = {IF q \in ImportRows(sel) /\ q.id \notin failed
                              THEN [q EXCEPT !.imported_question_id = Len(prod) + pos(q),
                                             !.review_status = "imported"]
                              ELSE q : q \in questions}
             /\ imported_questions' = imported_questions + Len(idx)
             /\ status' = COMPLETED
             /\ resp' = Resp(log, "import-with-test", 200)
  /\ UNCHANGED <<ocr_result, call, peer, procs, ocr_provider, processing_mode, jobs, uploads, workers,
                 doc_pages, total_pages, processed_pages, question_pages, skipped_pages,
                 extracted_questions, retry_count, error_message, actual_cost_cents,
                 celery_task_id, pages, nextQ, tasks>>

\* ------------------------------------------------------------- Next
Sels == {{}} \cup {{p} : p \in PageNums}

QSels == {{}} \cup {{q.id} : q \in questions}

SkipOutcomes == {"q", "none", "ocrfail"}

TaskIds == 1 .. Len(tasks)

\* a step of a process_pdf_job task; outs are the page outcomes the providers
\* give, log tells whether the text of an error is kept
ProcessStep(outs, log) ==
  \/ \E t \in TaskIds : PStart(t)
  \/ \E t \in TaskIds : POpen(t)
  \/ \E t \in TaskIds : PCall(t)
  \/ \E t \in TaskIds : \E f \in [BufPages(tasks[t]) -> outs] : PSave(t, f)
  \/ \E t \in TaskIds : PFinish(t)
  \/ \E t \in TaskIds : \E cause \in Causes : PExcept(t, log, cause)

\* a step of a structure_skipped_pages task
\* the steps of a run of process_pdf_job in which nothing raises
ProcessRun(outs) ==
  \/ \E t \in TaskIds : PStart(t)
  \/ \E t \in TaskIds : POpen(t)
  \/ \E t \in TaskIds : PCall(t)
  \/ \E t \in TaskIds : \E f \in [BufPages(tasks[t]) -> outs] : PSave(t, f)
  \/ \E t \in TaskIds : PFinish(t)

SkippedStep ==
  \/ \E t \in TaskIds : SStart(t)
  \/ \E t \in TaskIds :
       \E f \in [{i \in 1 .. tasks[t].npg : pages[i].page_number \in tasks[t].args}
                   -> SkipOutcomes] : SWork(t, f)

\* the job through its life: upload, the tasks, the operator actions on the job
Next ==
  \/ upload_pdf(FALSE, MaxPages - 1)
  \/ ProcessStep(Outcomes, FALSE)
  \/ \E t \in TaskIds : TimeLimit(t)
  \/ \E t \in TaskIds : CancelTask(t)
  \/ \E t \in TaskIds : RetryTask(t)
  \/ SkippedStep
  \/ cancel_job(FALSE)
  \/ resume_job(FALSE)
  \/ \E sel \in Sels : process_skipped_pages(FALSE, sel)
  \/ \E sel \in Sels : retry_failed_pages_endpoint(FALSE, sel, FALSE)
  \/ \E p \in PageNums : reextract_page_endpoint(FALSE, p)

Spec == Init /\ [][Next]_vars

\* processing runs of a document of several batches, with lost workers, resume
\* and re-extraction
NextRun ==
  \/ upload_pdf(FALSE, MaxPages)
  \/ ProcessStep({"q", "err"}, FALSE)
  \/ \E t \in TaskIds : WorkerLost(t)
  \/ \E t \in TaskIds : RetryTask(t)
  \/ resume_job(FALSE)
  \/ \E p \in PageNums : reextract_page_endpoint(FALSE, p)

SpecRun == Setup(1) /\ [][NextRun]_vars

\* the responses of resume and retry-failed
NextApi ==
  \/ upload_pdf(TRUE, MaxPages)
  \/ ProcessStep({"q", "err"}, FALSE)
  \/ \E t \in TaskIds : RetryTask(t)
  \/ resume_job(TRUE)
  \/ \E b \in BOOLEAN : retry_failed_pages_endpoint(TRUE, {}, b)

SpecApi == Setup(1) /\ [][NextApi]_vars

\* review and import of the questions of a processed document
NextImport ==
  \/ upload_pdf(TRUE, MaxPages - 1)
  \/ ProcessRun({"q"})
  \/ \E t \in TaskIds : RetryTask(t)
  \/ \E p \in PageNums : reextract_page_endpoint(TRUE, p)
  \/ \E q \in questions, a \in {"approve", "reject"} : bulk_review_questions(TRUE, q.id, a)
  \/ \E sel \in QSels, failed \in QSels : import_questions(TRUE, sel, failed)

SpecImport == Setup(1) /\ [][NextImport]_vars

\* review and import of questions that came without an answer or with
\* validation errors
NextReady ==
  \/ upload_pdf(FALSE, MaxPages - 1)
  \/ ProcessStep({"q", "qn", "qv"}, FALSE)
  \/ \E q \in questions, a \in {"approve", "reject"} : bulk_review_questions(FALSE, q.id, a)
  \/ \E sel \in QSels, failed \in QSels : import_questions(FALSE, sel, failed)

SpecReady == Setup(1) /\ [][NextReady]_vars

\* review and import of questions that came with the text of their passage
NextPassages ==
  \/ upload_pdf(FALSE, MaxPages - 1)
  \/ ProcessStep({"q", "qp"}, FALSE)
  \/ \E q \in questions, a \in {"approve", "reject"} : bulk_review_questions(FALSE, q.id, a)
  \/ \E sel \in QSels, failed \in QSels : import_questions(FALSE, sel, failed)
  \/ \E sel \in QSels, failed \in QSels : import_with_test(FALSE, sel, failed, OneModule)

SpecPassages == Setup(1) /\ [][NextPassages]_vars


\* uploads of the same file by the same user, and the runs of the jobs they create
NextUpload ==
  \/ \E u \in 1 .. MaxUploads : UploadCheck(u)
  \/ \E u \in 1 .. MaxUploads : UploadInsert(u)
  \/ \E j \in 1 .. Len(jobs) : JobStart(j)
  \/ \E j \in 1 .. Len(jobs) : JobReview(j)
  \/ \E j \in 1 .. Len(jobs) : JobFail(j)

SpecUpload == Setup(1) /\ [][NextUpload]_vars

\* one call of extract_text, for every text of at most MaxPieces pieces
NextClassify == \E text \in Texts(MaxPieces) : extract_text(text)

SpecClassify == Setup(1) /\ [][NextClassify]_vars

\* runs whose pages fail at the provider and runs that raise, with the text of
\* the error and the countdown of the requeue kept, and retry-failed to start
\* a run again
NextPages ==
  \/ upload_pdf(FALSE, MaxPages)
  \/ ProcessStep({"q", "err", "serr"}, TRUE)
  \/ \E t \in TaskIds : RetryTask(t)
  \/ retry_failed_pages_endpoint(FALSE, {}, FALSE)

SpecPages == Setup(1) /\ [][NextPages]_vars

\* runs over pages whose OCR call has a cost, and re-extraction to start a run
\* again
NextCost ==
  \/ upload_pdf(FALSE, MaxPages)
  \/ ProcessStep({"q", "cost"}, FALSE)
  \/ \E t \in TaskIds : RetryTask(t)
  \/ \E p \in PageNums : reextract_page_endpoint(FALSE, p)

SpecCost == Setup(1) /\ [][NextCost]_vars

\* runs that leave skipped pages and pages without markdown, and the forced
\* reprocessing of skipped pages
NextSkipped ==
  \/ upload_pdf(FALSE, MaxPages - 1)
  \/ ProcessRun({"skip", "err"})
  \/ SkippedStep
  \/ \E sel \in Sels : process_skipped_pages(FALSE, sel)

SpecSkipped == Setup(1) /\ [][NextSkipped]_vars

\* the job as upload_pdf and one run of process_pdf_job leave it when the
\* document has one batch of pages and every page gave a result: a row per page,
\* a question per question page, the job in REVIEW; the tasks that brought it
\* there have returned
Reviewed(w, f) ==
  LET buf == [i \in 1 .. ocr_batch_size |-> i]
      nQ  == CountQuestions(buf, f)
  IN /\ workers = w
     /\ doc_pages = ocr_batch_size
     /\ status = REVIEW
     /\ total_pages = ocr_batch_size
     /\ processed_pages = ocr_batch_size
     /\ question_pages = nQ
     /\ skipped_pages = ocr_batch_size - nQ
     /\ extracted_questions = nQ
     /\ imported_questions = 0
     /\ retry_count = 0
     /\ error_message = ""
     /\ actual_cost_cents = 0
     /\ celery_task_id = 0
     /\ pages = SaveRows(<<>>, buf, f)
     /\ questions = SaveQuestions(buf, f, 1, 1)
     /\ nextQ = 1 + nQ
     /\ prod = <<>>
     /\ tasks = <<>>
     /\ call = NoCall
     /\ peer = NoPeer
     /\ procs = [i \in 1 .. w |-> NoGather]
     /\ ocr_provider \in JobProviders
     /\ processing_mode = "balanced"
     /\ prod_passages = <<>>
     /\ jobs = <<>>
     /\ ocr_result = NoResult
     /\ uploads = NoUploads
     /\ resp = [op |-> "-", from |-> NONE, code |-> 0]

\* that job with the provider a job has by default (models/ocr.py:80), taken by
\* one worker process
ReviewedHybrid(f) == Reviewed(1, f) /\ ocr_provider = "hybrid"

\* review of the questions of a job in review and their import into a test
\* whose modules the request configures
NextModules ==
  \/ \E q \in questions, a \in {"approve", "reject"} : bulk_review_questions(FALSE, q.id, a)
  \/ \E sel \in QSels, failed \in QSels, modules \in ModuleConfigs :
       import_with_test(FALSE, sel, failed, modules)

SpecModules ==
  ReviewedHybrid([i \in 1 .. ocr_batch_size |-> "q"]) /\ [][NextModules]_vars

\* pages whose provider call fails, the runs that come after them (resume, the
\* retry of a failed run), and the three ways to have a page processed again
NextFailed ==
  \/ upload_pdf(FALSE, MaxPages - 1)
  \/ ProcessStep({"q", "err"}, FALSE)
  \/ \E t \in TaskIds : RetryTask(t)
  \/ SkippedStep
  \/ resume_job(FALSE)
  \/ retry_failed_pages_endpoint(FALSE, {}, FALSE)
  \/ \E p \in PageNums : reextract_page_endpoint(FALSE, p)
  \/ process_skipped_pages(FALSE, {})

SpecFailed == Setup(1) /\ [][NextFailed]_vars

\* the steps the worker processes take: a queued task is started when a process
\* is free, a running task goes on to its end or raises
TaskSteps ==
  \/ ProcessStep({"q", "skip"}, FALSE)
  \/ \E t \in TaskIds : RetryTask(t)
  \/ SkippedStep
  \/ \E t \in TaskIds : SRaise(t)

\* the tasks that set PROCESSING, and the endpoints that queue them for a job in
\* review
NextLive ==
  \/ TaskSteps
  \/ \E p \in PageNums : reextract_page_endpoint(FALSE, p)
  \/ \E sel \in Sels : process_skipped_pages(FALSE, sel)

\* the workers keep taking steps: Celery runs a queued task once a process is
\* free, and a running task does not stand still
SpecLive ==
  /\ \E f \in [1 .. ocr_batch_size -> {"q", "skip"}] : ReviewedHybrid(f)
  /\ [][NextLive]_vars
  /\ WF_vars(TaskSteps)

\* re-extraction of a page of a job in review, its re-run, and the forced
\* reprocessing of skipped pages
NextReextract ==
  \/ \E p \in PageNums : reextract_page_endpoint(FALSE, p)
  \/ \E t \in TaskIds : RetryTask(t)
  \/ ProcessStep({"q", "skip"}, FALSE)
  \/ \E sel \in Sels : process_skipped_pages(FALSE, sel)
  \/ SkippedStep

SpecReextract ==
  /\ \E f \in [1 .. ocr_batch_size -> {"q", "skip"}] : Reviewed(Workers, f)
  /\ [][NextReextract]_vars

\* the jitter values a 429 can get at any attempt
AllJitters == UNION {Jitters(BaseDelay(a, h)) : a \in 0 .. rate_limit_retries, h \in Hints \cup {NoHint}}

\* calls of _call_api against a provider that answers each attempt in any way
NextCall ==
  \/ call_api
  \/ Returned
  \/ TimeoutException
  \/ \E answer \in {"429", "5xx", "4xx"}, hint \in Hints \cup {NoHint}, jitter \in AllJitters :
       HTTPStatusError(answer, hint, jitter)
  \/ OtherException

SpecCall == Setup(1) /\ [][NextCall]_vars

\* one call of _call_api, for every setting of ocr_max_retries and every mix of
\* answers to its attempts
NextLoop ==
  \E m \in RetrySettings : \E answers \in [1 .. m * 2 -> Answers] : call_api_with(m, answers)

SpecLoop == Setup(1) /\ [][NextLoop]_vars

\* calls of _call_api that meet their 429 answers together with a call for
\* another page
NextPeers ==
  \/ call_api
  \/ Returned
  \/ TimeoutException
  \/ \E hint \in Hints \cup {NoHint}, jitter \in AllJitters, jitter2 \in AllJitters :
       Concurrent429(hint, jitter, jitter2)

SpecPeers == Setup(1) /\ [][NextPeers]_vars

\* the provider calls of the tasks that the worker processes run side by side
NextLimit ==
  \/ \E w \in DOMAIN procs, n \in 1 .. MaxPages, pv \in JobProviders, phase \in {"ocr", "struct"} :
       Gather(w, n, pv, phase)
  \/ \E w \in DOMAIN procs : Acquire(w)
  \/ \E w \in DOMAIN procs : Release(w)

SpecLimit == Setup(Workers) /\ [][NextLimit]_vars

\* ------------------------------------------------------------- claims
ProcessTasks == {t \in 1 .. Len(tasks) : tasks[t].kind = "process"}

RunningProcess == {t \in ProcessTasks : tasks[t].st = "running"}

C2_NoCallForCompletedPage ==
  \A t \in RunningProcess :
    /\ tasks[t].called \cap tasks[t].done = {}
    /\ Cardinality(tasks[t].called) <= doc_pages - Cardinality(tasks[t].done)

\* a run that started with completed pages has called every remaining page
C2_Witness ==
  \E t \in RunningProcess :
    /\ tasks[t].done # {}
    /\ tasks[t].called # {}
    /\ tasks[t].called = PageNums \ tasks[t].done

\* C3: no two executions of process_pdf_job work on the job at the same time.
\* Fails: resume is accepted while a run is in flight and queues a second run.
C3_OneRunAtATime == Cardinality(RunningProcess) <= 1

\* the production number an imported ExtractedQuestion got
NumberOf(q) == prod[q.imported_question_id].question_number

Imported == {q \in questions : q.imported_question_id # 0}

\* C4: a second import of an ExtractedQuestion that was imported creates no
\* production Question for it: no two production rows come from one
\* ExtractedQuestion, and the row stays linked to the one it got.
C4_ImportOnce ==
  /\ \A i, j \in 1 .. Len(prod) : prod[i].source = prod[j].source => i = j
  /\ \A q \in Imported : prod[q.imported_question_id].source = q.id

\* an import call found nothing to import although an imported question was
\* approved again
C4_Witness ==
  /\ resp.op = "import" /\ resp.code = 400
  /\ \E q \in Imported : q.review_status = "approved"
  /\ \A q \in questions : q.review_status = "approved" => q \in Imported

\* C5: of two questions imported by one call, the one from the lower page number
\* has the lower production question number.
C5_ImportInPageOrder ==
  \A a, b \in Imported :
    /\ prod[a.imported_question_id].call = prod[b.imported_question_id].call
    /\ pages[a.page].page_number < pages[b.page].page_number
    => NumberOf(a) < NumberOf(b)

\* one call imported two questions whose ids and page rows are in the opposite
\* order of their page numbers
C5_Witness ==
  \E a, b \in Imported :
    /\ prod[a.imported_question_id].call = prod[b.imported_question_id].call
    /\ pages[a.page].page_number < pages[b.page].page_number
    /\ a.id > b.id /\ a.page > b.page
    /\ NumberOf(a) < NumberOf(b)

\* C6: a processing task in flight never overwrites CANCELLED with another status.
\* Fails: the cancel task revokes the task id the job row holds, which after a
\* resume is not the id of the run in flight.
C6_CancelledNotOverwritten ==
  [][\A t \in RunningProcess :
       (status = CANCELLED /\ tasks'[t] # tasks[t]) => status' = CANCELLED]_vars

\* C7: once the status is COMPLETED or CANCELLED no operation changes it.
\* Fails: process-skipped checks no status, and a queued processing task starts
\* whatever the status is.
C7_TerminalStays ==
  [][(status \in {COMPLETED, CANCELLED}) => (status' = status)]_vars

\* an endpoint answered in this step
Answered(op) == resp' # resp /\ resp'.op = op

SomePageFailed == \E i \in PageIds : pages[i].error \/ ~pages[i].ocr_completed

RunFailed(t) ==
  /\ tasks[t].kind = "process" /\ tasks[t].st = "running" /\ tasks[t].pc # "finish"
  /\ tasks'[t].st # "running"

\* a run of process_pdf_job ends in this step past the batch loop
RunFinished(t) ==
  /\ tasks[t].kind = "process" /\ tasks[t].st = "running" /\ tasks[t].pc = "finish"
  /\ tasks'[t].st = "done"

\* C11: when the PDF opens and every render and every provider call returns, the
\* run ends with the job in REVIEW and processed_pages = total_pages: a run fails
\* only because the PDF did not open or a page did not render, and a run that
\* ends past the loop leaves REVIEW with processed_pages = total_pages.
\* Fails: the call of process_page_batch raises for its arguments before any
\* provider is called; and a run that processes a reset page again counts it again.
C11_AllSucceedEndsInReview ==
  [][\A t \in TaskIds :
       /\ (RunFailed(t)) => (error_message' \in {"open", "render"})
       /\ (RunFinished(t)) => (status' = REVIEW /\ processed_pages' = total_pages')]_vars

C13_BoundedRetries ==
  [][\A t \in TaskIds :
       (RunFailed(t)) =>
         (/\ status' = FAILED
          /\ error_message' \in Causes
          /\ retry_count' = retry_count + 1
          /\ IF retry_count' < ocr_max_retries
             THEN tasks'[t].st = "queued" /\ tasks'[t].countdown = 60 * retry_count'
             ELSE tasks'[t].st = "done")]_vars

\* the job failed ocr_max_retries times in a row and nothing is queued for it
C13_Witness ==
  /\ status = FAILED /\ error_message \in Causes
  /\ retry_count = ocr_max_retries
  /\ pages = <<>>
  /\ \A t \in TaskIds : tasks[t].st = "done"

\* the rows a step added to ocr_job_pages
NewRows == (Len(pages) + 1) .. Len(pages')

C15_RenderFailureNotFatal ==
  [][\A t \in TaskIds :
       (tasks[t].st = "running" /\ error_message' = "render" /\ error_message # "render")
         => (tasks'[t].st = "running" /\ status' # FAILED)]_vars

\* attempts of the call that the provider answered with one of the given answers
Failed(answers) == Cardinality({k \in 1 .. Len(call.hist) : call.hist[k].answer \in answers})

\* C16: _call_api raises a transient error only when the budget of that kind of
\* error is used up, whatever other transient errors came before in the call: a
\* timeout or a 5xx after ocr_max_retries attempts failed by timeout or 5xx, a 429
\* after 2 * ocr_max_retries attempts failed by 429.
\* Fails: the budgets are compared with the one loop index, which counts the
\* attempts of every kind.
C16_RaisedOnlyWhenBudgetUsed ==
  call.st = "raised" =>
    /\ call.err \in {"timeout", "5xx"} => Failed({"timeout", "5xx"}) = ocr_max_retries
    /\ call.err = "429" => Failed({"429"}) = 2 * ocr_max_retries

\* the provider gave the same answer to every attempt the call has made
AllAnswered(answer) ==
  /\ call.hist # <<>>
  /\ \A k \in 1 .. Len(call.hist) : call.hist[k].answer = answer

\* a call whose attempts all time out, or all return 5xx, makes ocr_max_retries
\* attempts, sleeps ocr_retry_delay * 2^k seconds after the k-th of them (0-based)
\* and raises at the last; a call whose attempts all return 429 makes more
OnlyTimeoutsOr5xx ==
  /\ \A a \in {"timeout", "5xx"} :
       AllAnswered(a) =>
         /\ Len(call.hist) <= ocr_max_retries
         /\ (call.st = "raised") <=> (Len(call.hist) = ocr_max_retries)
         /\ call.st = "raised" => call.err = a
         /\ \A k \in 1 .. Len(call.hist) :
              call.hist[k].delay =
                IF k < ocr_max_retries THEN HalfSeconds(ocr_retry_delay * (2 ^ (k - 1))) ELSE 0
  /\ (AllAnswered("429") /\ call.st = "raised") => Len(call.hist) > ocr_max_retries

\* the 429 answers after which the call slept, at an attempt index at which a
\* timeout is retried as well
Slept429 ==
  {k \in 1 .. Len(call.hist) :
     call.hist[k].answer = "429" /\ call.hist[k].delay > 0 /\ k < ocr_max_retries}

\* C17 as the spec has it: a call that only times out, or only gets 5xx, is
\* attempted ocr_max_retries times with a sleep of ocr_retry_delay * 2^k seconds
\* after attempt k and then raises; that is fewer attempts than for 429, and at
\* every attempt index a shorter delay than after a 429.
C17_ShorterThanAny429 ==
  /\ OnlyTimeoutsOr5xx
  /\ \A k \in Slept429 : HalfSeconds(BackoffDelay(k - 1)) < call.hist[k].delay

\* C17 amended: the delay is shorter than after a 429 that carries no Retry-After
\* value; a 429 with a small Retry-After value is retried sooner.
C17_ShorterThan429WithoutHint ==
  /\ OnlyTimeoutsOr5xx
  /\ \A k \in Slept429 :
       call.hist[k].hint = NoHint => HalfSeconds(BackoffDelay(k - 1)) < call.hist[k].delay

\* a call was raised after ocr_max_retries timeouts
C17_Witness ==
  /\ call.st = "raised" /\ call.err = "timeout"
  /\ AllAnswered("timeout")
  /\ Len(call.hist) = ocr_max_retries
  /\ call.hist[1].delay = HalfSeconds(ocr_retry_delay)

\* C18: an HTTP error status other than 429 and 5xx, and an exception that is
\* neither a timeout nor an HTTP status error, is raised to the caller by the
\* attempt that met it, with no sleep, at whatever attempt index: the attempt is
\* the last of the call and the call has raised its error.
C18_OtherErrorsRaisedAtOnce ==
  \A k \in 1 .. Len(call.hist) :
    call.hist[k].answer \in {"4xx", "other"} =>
      /\ k = Len(call.hist)
      /\ call.hist[k].delay = 0
      /\ call.st = "raised" /\ call.err = call.hist[k].answer
      /\ call.attempt = k - 1

\* a 4xx status was raised at the last attempt index, after retries of other errors
C18_Witness ==
  /\ call.st = "raised" /\ call.err = "4xx"
  /\ Len(call.hist) = rate_limit_retries
  /\ call.hist[1].delay > 0

\* two 429 answers in a row, after both of which the call slept, the second not
\* past the attempt index of the cap
Consecutive429 ==
  {k \in 1 .. Len(call.hist) - 1 :
     /\ call.hist[k].answer = "429" /\ call.hist[k].delay > 0
     /\ call.hist[k + 1].answer = "429" /\ call.hist[k + 1].delay > 0
     /\ k <= CapAttempt}

\* C19 as the spec has it: of two consecutive 429 answers to one call, the delay
\* (base delay plus jitter) after the second is at least the delay after the
\* first, up to the cap.
C19_DelaysNonDecreasing ==
  \A k \in Consecutive429 : call.hist[k + 1].delay >= call.hist[k].delay

\* C19 amended: that holds of two consecutive 429 answers that carry no
\* Retry-After value; a Retry-After value sets the delay whatever came before.
C19_DelaysNonDecreasingWithoutHint ==
  \A k \in Consecutive429 :
    (call.hist[k].hint = NoHint /\ call.hist[k + 1].hint = NoHint)
      => call.hist[k + 1].delay >= call.hist[k].delay

\* two 429 answers without a Retry-After value, the first delayed with the most
\* jitter and the second with none
C19_Witness ==
  /\ 1 \in Consecutive429
  /\ call.hist[1].hint = NoHint /\ call.hist[2].hint = NoHint
  /\ call.hist[1].delay = HalfSeconds(GeometricBase(0)) + GeometricBase(0)
  /\ call.hist[2].delay = HalfSeconds(GeometricBase(1))

\* the 429 answers with a Retry-After value that the call followed with another
\* attempt
Hinted429 ==
  {k \in 1 .. Len(call.hist) - 1 :
     call.hist[k].answer = "429" /\ call.hist[k].hint # NoHint}

\* C20: after a 429 answer with a Retry-After value of n seconds the next attempt
\* of the call is made no sooner than n seconds later.
C20_RetryAfterHonoured ==
  \A k \in Hinted429 : call.hist[k].delay >= HalfSeconds(call.hist[k].hint)

\* an attempt followed a 429 answer whose Retry-After value is longer than the
\* backoff of its attempt index, after a sleep with no jitter
C20_Witness ==
  \E k \in Hinted429 :
    /\ call.hist[k].hint > GeometricBase(k - 1) + GeometricBase(k - 1)
    /\ call.hist[k].delay = HalfSeconds(call.hist[k].hint + 1)

\* the delay of the call after its last attempt
LastDelay == call'.hist[Len(call'.hist)].delay

\* C21 as the spec has it: two calls for different pages that get a 429 at the
\* same instant and attempt index are given different delays.
C21_DifferentDelays ==
  [][(peer' # peer) => (peer'.delay # LastDelay)]_vars

\* C21 amended: each of the two calls is given a delay of its own between the base
\* delay and one and a half times the base delay; nothing keeps the two apart.
C21_DelaysDrawnApart ==
  [][(peer' # peer) =>
       (LET base == BaseDelay(peer'.attempt, peer'.hint)
        IN /\ call'.attempt = peer'.attempt + 1
           /\ HalfSeconds(base) <= peer'.delay /\ peer'.delay <= HalfSeconds(base) + base
           /\ HalfSeconds(base) <= LastDelay /\ LastDelay <= HalfSeconds(base) + base)]_vars

\* the two calls got different delays for the 429 they met together
C21_Witness ==
  /\ peer # NoPeer
  /\ Len(call.hist) = peer.attempt + 1
  /\ call.hist[Len(call.hist)].answer = "429"
  /\ call.hist[Len(call.hist)].delay # peer.delay

\* requests in flight to a provider, over all worker processes
RECURSIVE InFlight(_, _)
InFlight(ws, provider) ==
  IF ws = {} THEN 0
  ELSE LET w == CHOOSE x \in ws : TRUE
       IN (IF procs[w].provider = provider THEN procs[w].inflight ELSE 0)
          + InFlight(ws \ {w}, provider)

SkippedWork(t) ==
  /\ tasks[t].kind = "skipped" /\ tasks[t].st = "running" /\ tasks[t].pc = "work"
  /\ tasks'[t].st = "done"

\* C25: force-reprocessing a skipped page whose markdown is stored renders the
\* page no more and makes no OCR call for it, and leaves its markdown as it is;
\* the structuring call alone is made.
C25_StructuringAlone ==
  [][\A t \in TaskIds :
       (SkippedWork(t)) =>
         (\A i \in PageIds :
            (pages[i].page_number \in tasks[t].args /\ pages[i].markdown) =>
              (/\ pages'[i].reocr = pages[i].reocr
               /\ pages'[i].markdown = pages[i].markdown
               /\ pages'[i].ocr_completed = pages[i].ocr_completed))]_vars

\* a skipped page became a question page through structuring alone, next to a
\* page without markdown that the same task sent to OCR
C25_Witness ==
  \E i, j \in PageIds :
    /\ pages[i].is_question_page /\ pages[i].structuring_completed /\ ~pages[i].reocr
    /\ pages[j].reocr
    /\ \E q \in questions : q.page = i

CallsFor(t, p) ==
  /\ tasks[t].kind = "process" /\ tasks[t].st = "running"
  /\ p \notin tasks[t].called /\ p \in tasks'[t].called

is_ready_for_import(q) ==
  /\ q.review_status = "approved"
  /\ q.correct_answer
  /\ ~q.needs_answer
  /\ ~q.validation_errors

C31_OneActiveJobPerHash == Cardinality(ActiveJobs) <= 1

\* the page has "Answer Key" as its header: nothing but whitespace and heading
\* markers precede the words
AnswerKeyPage(text) ==
  \E k \in 1 .. Len(text) :
    /\ text[k] = "key"
    /\ \A i \in 1 .. (k - 1) : text[i] \in {"sp", "#"}

\* C32: a page with "Answer Key" as its header is never classified as a question
\* page, whatever whitespace or heading marker precedes the header and whatever
\* options follow it.
\* Fails: ^answer\s*key is searched without re.MULTILINE in the text as the
\* provider gave it, so it matches only when the words are the first characters.
C32_AnswerKeyNotQuestionPage ==
  AnswerKeyPage(ocr_result.markdown) => ~ocr_result.is_question_page

\* the page holds enumerated options A) .. B) .. C) .. D) ..
HasOptions(text) == \E i \in 1 .. Len(text) : text[i] = "opts"

\* C33 as the spec has it: every page of at least 150 characters that holds
\* enumerated options is classified as a question page.
C33_OptionsAreQuestionPage ==
  (Length(ocr_result.markdown) >= 150 /\ HasOptions(ocr_result.markdown))
    => ocr_result.is_question_page

\* C33 amended: every page of at least 150 characters that holds enumerated
\* options is classified as a question page, unless a non-question pattern
\* matches it (it begins with "answer key" or holds the word "advertisement").
C33_OptionsAreQuestionPageUnlessFiltered ==
  (/\ Length(Strip(ocr_result.markdown)) >= 150
   /\ HasOptions(ocr_result.markdown)
   /\ ~MatchesNonQuestion(ocr_result.markdown))
    => ocr_result.is_question_page

\* a page of exactly 150 characters with options and no filtered word was
\* classified as a question page
C33_Witness ==
  /\ Length(Strip(ocr_result.markdown)) = 150
  /\ HasOptions(ocr_result.markdown)
  /\ ~MatchesNonQuestion(ocr_result.markdown)
  /\ ocr_result.is_question_page

\* C34: no two questions that import-with-test created have the module and the
\* question number in common, whatever the ranges of the modules of the request
C34_ModuleNumbersDistinct ==
  \A i, j \in 1 .. Len(prod) :
    (/\ i # j
     /\ prod[i].module # TargetModule
     /\ prod[i].module = prod[j].module) => prod[i].question_number # prod[j].question_number

\* one call put two questions into two modules, the second by a range that
\* does not start at 1: both have the number 1
C34_Witness ==
  \E i, j \in 1 .. Len(prod) :
    /\ i < j
    /\ prod[i].module # TargetModule
    /\ prod[i].module # prod[j].module
    /\ prod[i].call = prod[j].call
    /\ prod[i].question_number = 1
    /\ prod[j].question_number = 1

C37_ReturnsBodyOrRaises ==
  call # NoCall =>
    /\ call.attempt <= 2 * ocr_max_retries
    /\ call.st \in {"returned", "raised"}

ActiveTask == \E t \in TaskIds : tasks[t].st \in {"queued", "running"}

FailedRowsKept == {i \in PageIds : ~pages[i].markdown /\ pages[i].ocr_completed}

\* a process_pdf_job run starts in this step
Starts(t) == tasks[t].kind = "process" /\ tasks[t].st = "queued" /\ tasks'[t].st = "running"

\* the pages a process_pdf_job run sends to the provider in this step
CallsNow(t) ==
  IF tasks[t].kind = "process" /\ tasks[t].st = "running" /\ tasks'[t].st = "running"
  THEN tasks'[t].called \ tasks[t].called ELSE {}

\* the step resets the flags of row i on behalf of retry-failed or re-extract: it
\* is the retry_failed_pages task for the page, or the re-extract endpoint
\* that queues that task
ResetBy(i) ==
  \/ \E t \in TaskIds : /\ tasks[t].kind = "retry" /\ tasks[t].st = "queued"
                         /\ tasks'[t].st = "done"
                         /\ pages[i].page_number \in tasks[t].args
  \/ /\ Len(tasks') = Len(tasks) + 1
     /\ tasks'[Len(tasks')].kind = "retry"
     /\ pages[i].page_number \in tasks'[Len(tasks')].args

\* what C40 says of the runs of process_pdf_job: the row of a page whose call
\* failed is written with ocr_completed and the error; a run that starts later
\* counts the page as processed and does not call the provider for it; and
\* ocr_completed is taken back by retry-failed and re-extract alone
FailedPageKeptFromRuns ==
  /\ \A i \in NewRows : ~pages'[i].markdown => (pages'[i].ocr_completed /\ pages'[i].error)
  /\ \A t \in TaskIds :
       /\ Starts(t) => NumsOf(FailedRowsKept) \subseteq tasks'[t].done
       /\ CallsNow(t) \cap tasks[t].done = {}
  /\ \A i \in PageIds : (pages[i].ocr_completed /\ ~pages'[i].ocr_completed) => ResetBy(i)

====
